---------------------------- MODULE Spec2Model ----------------------------
(***************************************************************************)
(* Model of checks.d/disk.py (class Disk): one collection pass of the disk *)
(* check, on the psutil path (collect_metrics_psutil followed by           *)
(* collect_latency_metrics) and on the df path (collect_metrics_manually). *)
(*                                                                         *)
(* Strings are sequences of one-character strings, so that str.split,      *)
(* str.isdigit, the substring test and the regular expressions of the      *)
(* source are computed character by character.  Floats are exact           *)
(* fractions [num, den] in lowest terms.                                   *)
(***************************************************************************)
EXTENDS Integers, Sequences, FiniteSets, Bags, TLC

(***************************************************************************)
(* Bounds of the model.                                                    *)
(***************************************************************************)
MaxParts == 2
MaxRows == 3

(***************************************************************************)
(* String literals of the source and of the modelled host.                 *)
(***************************************************************************)
s_dev == <<"/","d","e","v","/">>
s_sda1 == <<"s","d","a","1">>
s_sdb1 == <<"s","d","b","1">>
s_sd_dot_1 == <<"s","d",".","1">>
s_dev_sda1 == s_dev \o s_sda1
s_dev_sdb1 == s_dev \o s_sdb1
s_udev == <<"u","d","e","v">>
s_sysfs == <<"s","y","s","f","s">>
s_rpc_pipefs == <<"r","p","c","_","p","i","p","e","f","s">>
s_proc == <<"p","r","o","c">>
s_devpts == <<"d","e","v","p","t","s">>
s_none == <<"n","o","n","e">>
s_tevv == <<"t","e","v","v">>
s_tevs == <<"t","e","v","s">>
s_ext4 == <<"e","x","t","4">>
s_tmpfs == <<"t","m","p","f","s">>
s_devtmpfs == s_dev \o <<"t","m","p","f","s">>
s_cdfs == <<"C","D","F","S">>
s_empty == <<>>
s_root == <<"/">>
s_mnt == <<"/","m","n","t">>
s_run == <<"/","r","u","n">>
s_t == <<"/","t">>
s_C == <<"C",":">>
s_ntfs == <<"N","T","F","S">>
s_D == <<"D",":">>
s_E == <<"E",":">>
s_rw == <<"r","w">>
s_cdrom == <<"c","d","r","o","m">>
s_ro_cdrom == <<"r","o",",">> \o s_cdrom
s_yes == <<"y","e","s">>
s_no == <<"n","o">>
s_true == <<"t","r","u","e">>
s_1 == <<"1">>
s_re_default == <<"^","$">>
s_re_tev == <<"^","t","e","v","+","$">>
s_pct == <<"%">>
s_5 == <<"5">>
s_4 == <<"4">>
s_80pct == <<"8","0","%">>
s_dash == <<"-">>
s_verylongdevicename ==
    <<"v","e","r","y","l","o","n","g","d","e","v","i","c","e","n","a","m","e">>
s_4096 == <<"4","0","9","6">>
s_2048 == <<"2","0","4","8">>
s_50pct == <<"5","0","%">>
s_123 == <<"1","2","3">>
s_map == <<"m","a","p">>
s_hosts == <<"-","h","o","s","t","s">>
s_header == <<"F","i","l","e","s","y","s","t","e","m">>

\* An optional value (a key a dict may not hold, a value that may be None)
\* is <<>> when absent and <<value>> when present.
Missing == <<>>
NoneValue == <<>>
Some(value) == <<value>>

FAKE_DEVICES == {s_udev, s_sysfs, s_rpc_pipefs, s_proc, s_devpts}
METRIC_DISK(name) == <<"system.disk", name>>
METRIC_INODE(name) == <<"system.fs.inodes", name>>

(***************************************************************************)
(* Floats as exact fractions.                                              *)
(***************************************************************************)
RECURSIVE Gcd(_, _)
Gcd(a, b) == IF b = 0 THEN a ELSE Gcd(b, a % b)

Frac(n, d) ==
    LET g == Gcd(IF n < 0 THEN -n ELSE n, d)
    IN  [num |-> n \div g, den |-> d \div g]

Num(n) == Frac(n, 1)

(***************************************************************************)
(* str.isdigit, float(str), the substring test.                            *)
(***************************************************************************)
Digits == {"0","1","2","3","4","5","6","7","8","9"}

IsDigit(s) == Len(s) > 0 /\ \A i \in 1..Len(s) : s[i] \in Digits

DigitVal(c) ==
    CASE c = "0" -> 0 [] c = "1" -> 1 [] c = "2" -> 2 [] c = "3" -> 3
      [] c = "4" -> 4 [] c = "5" -> 5 [] c = "6" -> 6 [] c = "7" -> 7
      [] c = "8" -> 8 [] c = "9" -> 9

RECURSIVE ParseInt(_)
ParseInt(s) ==
    IF s = <<>> THEN 0
    ELSE 10 * ParseInt(SubSeq(s, 1, Len(s) - 1)) + DigitVal(s[Len(s)])

Contains(s, sub) ==
    \E i \in 1..(Len(s) - Len(sub) + 1) : SubSeq(s, i, i + Len(sub) - 1) = sub

(***************************************************************************)
(* str.split(sep) and str.strip().split().                                 *)
(***************************************************************************)
RECURSIVE SplitOn(_, _)
SplitOn(s, sep) ==
    IF \A i \in 1..Len(s) : s[i] # sep THEN <<s>>
    ELSE LET i == CHOOSE k \in 1..Len(s) :
                     s[k] = sep /\ \A j \in 1..(k - 1) : s[j] # sep
         IN  <<SubSeq(s, 1, i - 1)>> \o SplitOn(SubSeq(s, i + 1, Len(s)), sep)

NonEmpty(w) == w # <<>>

SplitFields(line) == SelectSeq(SplitOn(line, " "), NonEmpty)

(***************************************************************************)
(* The regular expressions of the source, for the fragment of the re       *)
(* syntax its patterns use: a leading ^, a trailing $, literal characters, *)
(* the wildcard ., one level of ( ) grouping and the postfix ? + *.        *)
(***************************************************************************)
Quantifiers == {"?", "+", "*"}

RECURSIVE ReItems(_, _)
ReItems(p, i) ==
    IF i > Len(p) THEN <<>>
    ELSE LET close == IF p[i] = "("
                      THEN CHOOSE k \in (i + 1)..Len(p) :
                               p[k] = ")" /\ \A j \in (i + 1)..(k - 1) : p[j] # ")"
                      ELSE i
             atom == IF p[i] = "(" THEN SubSeq(p, i + 1, close - 1) ELSE <<p[i]>>
             quantified == close + 1 <= Len(p) /\ p[close + 1] \in Quantifiers
             q == IF quantified THEN p[close + 1] ELSE "1"
             next == IF quantified THEN close + 2 ELSE close + 1
         IN  <<[atom |-> atom, q |-> q]>> \o ReItems(p, next)

ReCompile(p) ==
    LET start == IF Len(p) > 0 /\ p[1] = "^" THEN 2 ELSE 1
        anchored == Len(p) >= start /\ p[Len(p)] = "$"
        stop == IF anchored THEN Len(p) - 1 ELSE Len(p)
    IN  [items |-> ReItems(SubSeq(p, start, stop), 1), end |-> anchored]

AtomAt(atom, s, j) ==
    /\ j + Len(atom) - 1 <= Len(s)
    /\ \A k \in 1..Len(atom) : atom[k] = "." \/ atom[k] = s[j + k - 1]

RECURSIVE MatchFrom(_, _, _, _)
MatchFrom(re, k, s, j) ==
    IF k > Len(re.items) THEN (re.end => j = Len(s) + 1)
    ELSE LET it == re.items[k]
             n == Len(it.atom)
             hit == AtomAt(it.atom, s, j)
         IN  CASE it.q = "1" -> hit /\ MatchFrom(re, k + 1, s, j + n)
               [] it.q = "?" -> \/ hit /\ MatchFrom(re, k + 1, s, j + n)
                                \/ MatchFrom(re, k + 1, s, j)
               [] it.q = "*" -> \/ hit /\ n > 0 /\ MatchFrom(re, k, s, j + n)
                                \/ MatchFrom(re, k + 1, s, j)
               [] it.q = "+" -> hit /\ \/ n > 0 /\ MatchFrom(re, k, s, j + n)
                                       \/ MatchFrom(re, k + 1, s, j + n)

\* compiled.match(s): anchored at the start, at the end only with a $
ReMatch(re, s) == MatchFrom(re, 1, s, 1)


(***************************************************************************)
(* Python lists and dicts.                                                 *)
(***************************************************************************)
In(x, list) == \E i \in 1..Len(list) : list[i] = x

Last(list) == list[Len(list)]

EmptyDict == [k \in {} |-> 0]

DictSet(d, key, value) ==
    [k \in DOMAIN d \cup {key} |-> IF k = key THEN value ELSE d[k]]

DictUpdate(d, other) ==
    [k \in DOMAIN d \cup DOMAIN other |->
        IF k \in DOMAIN other THEN other[k] ELSE d[k]]

\* instance.get(key, default)
Get(value, default) == IF value = Missing THEN default ELSE value[1]

(***************************************************************************)
(* Collaborators of the check that live outside checks.d/disk.py.          *)
(***************************************************************************)
\* config._is_affirmative
IsAffirmative(s) == s \in {s_yes, s_true, s_1}

\* util.Platform
Platform_is_win32(platform) == platform = "win32"
Platform_is_unix(platform) == platform = "unix"

\* Disk._is_number, used by _flatten_devices and defined outside the file
IsNumber(s) == IsDigit(s)

(***************************************************************************)
(* The state.                                                              *)
(*   instance, agentConfig : the configuration handed to check()           *)
(*   host        : the machine: its platform, whether psutil imported, and *)
(*                 what its mount table and its df output may list         *)
(*   oracle      : what the data sources have answered so far: a dict from *)
(*                 a call [call, arg] to its answer [ok, value]; the same  *)
(*                 call gets the same answer as long as the machine does   *)
(*                 not change                                              *)
(*   use_mount .. all_partitions, valid_disks : the attributes of self     *)
(*   pc, parts, devices, idx, io, todo : the position of check() in its    *)
(*                 loops and the lists it iterates                         *)
(*   gauges      : the bag of self.gauge(...) calls made in the pass       *)
(*   error       : the exception that ended the pass, "" if none           *)
(*   replay      : whether this pass runs on the configuration and the     *)
(*                 data-source answers of the previous one                 *)
(*   prev_gauges, prev_error : gauges and error of the previous pass       *)
(***************************************************************************)
VARIABLES instance, agentConfig, host, oracle,
          use_mount, excluded_filesystems, excluded_disks, excluded_disk_re,
          tag_by_filesystem, all_partitions, valid_disks,
          pc, parts, devices, idx, io, todo, gauges, error,
          replay, prev_gauges, prev_error

inputs == <<instance, agentConfig, host>>
conf == <<use_mount, excluded_filesystems, excluded_disks, excluded_disk_re,
          tag_by_filesystem, all_partitions>>
loops == <<parts, devices, idx, io, todo>>
history == <<replay, prev_gauges, prev_error>>
vars == <<inputs, oracle, conf, valid_disks, pc, loops, gauges, error, history>>

(***************************************************************************)
(* Data sources: psutil.disk_partitions, psutil.disk_usage, os.statvfs,    *)
(* psutil.disk_io_counters, get_subprocess_output.  A call either returns  *)
(* a value or raises.                                                      *)
(***************************************************************************)
Call(name, arg) == [call |-> name, arg |-> arg]
Ok(value) == [ok |-> TRUE, value |-> value]
Raised(value) == [ok |-> FALSE, value |-> value]

\* the answers of `answers` the source can give to `call` now
Ask(call, answers) ==
    {r \in answers : call \in DOMAIN oracle => r = oracle[call]}

Told(call, r) == DictSet(oracle, call, r)

(***************************************************************************)
(* Disk._exclude_disk, Disk._exclude_disk_psutil                           *)
(***************************************************************************)
\* _exclude_disk without the excluded_filesystems test of line 94
exclude_disk_by_name_only(name, filesystem) ==
    \/ name \in FAKE_DEVICES
    \/ In(name, excluded_disks)
    \/ ReMatch(excluded_disk_re, name)

exclude_disk(name, filesystem) ==
    \/ name \in FAKE_DEVICES
    \/ In(name, excluded_disks)
    \/ ReMatch(excluded_disk_re, name)
    \/ In(filesystem, excluded_filesystems)

exclude_disk_psutil(part) ==
    \/ /\ Platform_is_win32(host.platform)
       /\ (Contains(part.opts, s_cdrom) \/ part.fstype = s_empty)
    \/ exclude_disk(part.device, part.fstype)

(***************************************************************************)
(* Disk._collect_inodes_metrics, Disk._collect_part_metrics,               *)
(* Disk._extract_metrics: each returns [err, metrics], err the exception   *)
(* raised ("" when it returns) and metrics the dict returned.  statvfs and *)
(* usage are the answers of os.statvfs and psutil.disk_usage for the       *)
(* mountpoint.                                                             *)
(***************************************************************************)
\* _collect_inodes_metrics with the ratio of the free inodes as in_use
collect_inodes_metrics_free_ratio(statvfs) ==
    IF ~statvfs.ok
    THEN [err |-> "OSError", metrics |-> EmptyDict]
    ELSE LET total == statvfs.value.f_files
             free == statvfs.value.f_ffree
         IN  [err |-> "",
              metrics |->
                IF total # 0
                THEN (METRIC_INODE("total") :> Num(total))
                     @@ (METRIC_INODE("free") :> Num(free))
                     @@ (METRIC_INODE("used") :> Num(total - free))
                     @@ (METRIC_INODE("in_use") :> Frac(free, total))
                ELSE EmptyDict]

collect_inodes_metrics(statvfs) ==
    IF ~statvfs.ok
    THEN [err |-> "OSError", metrics |-> EmptyDict]
    ELSE LET inodes == statvfs.value
             total == inodes.f_files
             free == inodes.f_ffree
         IN  [err |-> "",
              metrics |->
                IF inodes.f_files # 0
                THEN (METRIC_INODE("total") :> Num(total))
                     @@ (METRIC_INODE("free") :> Num(free))
                     @@ (METRIC_INODE("used") :> Num(total - free))
                     @@ (METRIC_INODE("in_use") :> Frac(total - free, total))
                ELSE EmptyDict]

collect_part_metrics(usage, statvfs) ==
    IF ~usage.ok
    THEN [err |-> "OSError", metrics |-> EmptyDict]
    ELSE LET metrics ==
                 (METRIC_DISK("total") :> Frac(usage.value.total, 1024))
                 @@ (METRIC_DISK("used") :> Frac(usage.value.used, 1024))
                 @@ (METRIC_DISK("free") :> Frac(usage.value.free, 1024))
                 @@ (METRIC_DISK("in_use") :> Frac(usage.value.percent, 100))
             inodes == collect_inodes_metrics(statvfs)
         IN  IF Platform_is_unix(host.platform)
             THEN [err |-> inodes.err,
                   metrics |-> DictUpdate(metrics, inodes.metrics)]
             ELSE [err |-> "", metrics |-> metrics]

\* lines 166-171: float() of a field that is not a number raises ValueError,
\* a field the row does not have raises IndexError
extract_space_metrics(device) ==
    LET in_use == IF Len(device[6]) > 1 /\ Last(device[6]) = "%"
                  THEN SubSeq(device[6], 1, Len(device[6]) - 1)
                  ELSE <<>>
    IN  CASE Len(device) < 4 -> [err |-> "IndexError", metrics |-> EmptyDict]
          [] Len(device) >= 4 /\ ~IsDigit(device[4]) ->
                [err |-> "ValueError", metrics |-> EmptyDict]
          [] Len(device) = 4 /\ IsDigit(device[4]) ->
                [err |-> "IndexError", metrics |-> EmptyDict]
          [] Len(device) >= 5 /\ IsDigit(device[4]) /\ ~IsDigit(device[5]) ->
                [err |-> "ValueError", metrics |-> EmptyDict]
          [] Len(device) = 5 /\ IsDigit(device[4]) /\ IsDigit(device[5]) ->
                [err |-> "IndexError", metrics |-> EmptyDict]
          [] Len(device) >= 6 /\ IsDigit(device[4]) /\ IsDigit(device[5])
                /\ in_use # <<>> /\ ~IsDigit(in_use) ->
                [err |-> "ValueError", metrics |-> EmptyDict]
          [] OTHER ->
                [err |-> "",
                 metrics |->
                    (METRIC_DISK("total") :> Num(ParseInt(device[3])))
                    @@ (METRIC_DISK("used") :> Num(ParseInt(device[4])))
                    @@ (METRIC_DISK("free") :> Num(ParseInt(device[5])))
                    @@ (IF in_use # <<>>
                        THEN METRIC_DISK("in_use") :>
                                 Frac(ParseInt(in_use), 100)
                        ELSE EmptyDict)]

extract_metrics(device, statvfs) ==
    LET result == extract_space_metrics(device)
        inodes == collect_inodes_metrics(statvfs)
    IN  IF result.err # "" THEN result
        ELSE [err |-> inodes.err,
              metrics |-> DictUpdate(result.metrics, inodes.metrics)]

(***************************************************************************)
(* Disk._keep_device, Disk._flatten_devices, Disk._list_devices            *)
(***************************************************************************)
\* "IndexError" when device[2] does not exist, else "keep" or "drop"
keep_device(device) ==
    CASE ~(Len(device) > 1) -> "drop"
      [] Len(device) = 2 -> "IndexError"
      [] OTHER -> IF IsDigit(device[3]) /\ ~exclude_disk(device[1], device[2])
                  THEN "keep" ELSE "drop"

\* the loop of _flatten_devices from line i on; previous = <<>> is None
\* _flatten_devices without line 198: the prefix stays pending after use
RECURSIVE flatten_from_keeping_previous(_, _, _)
flatten_from_keeping_previous(devices_, i, previous) ==
    IF i > Len(devices_) THEN <<>>
    ELSE LET parts_ == devices_[i]
         IN  IF Len(parts_) = 1
             THEN <<parts_>>
                  \o flatten_from_keeping_previous(devices_, i + 1, parts_[1])
             ELSE IF previous # <<>> /\ IsNumber(parts_[1])
             THEN <<<<previous>> \o parts_>>
                  \o flatten_from_keeping_previous(devices_, i + 1, previous)
             ELSE <<parts_>>
                  \o flatten_from_keeping_previous(devices_, i + 1, <<>>)

RECURSIVE flatten_from(_, _, _)
flatten_from(devices_, i, previous) ==
    IF i > Len(devices_) THEN <<>>
    ELSE LET parts_ == devices_[i]
         IN  IF Len(parts_) = 1
             THEN <<parts_>> \o flatten_from(devices_, i + 1, parts_[1])
             ELSE IF previous # <<>> /\ IsNumber(parts_[1])
             THEN <<<<previous>> \o parts_>> \o flatten_from(devices_, i + 1, <<>>)
             ELSE <<parts_>> \o flatten_from(devices_, i + 1, <<>>)

flatten_devices(devices_) == flatten_from(devices_, 1, <<>>)

\* lines 209-212: the rows of the df output, header and empty lines skipped
raw_devices(df_output) ==
    LET lines == SplitOn(df_output, "\n")
        all_devices == [n \in 1..Len(lines) |-> SplitFields(lines[n])]
    IN  SelectSeq(Tail(all_devices), NonEmpty)

list_devices(df_output) ==
    LET flattened_devices == flatten_devices(raw_devices(df_output))
        kept(d) == keep_device(d) = "keep"
    IN  IF \E n \in 1..Len(flattened_devices) :
               keep_device(flattened_devices[n]) = "IndexError"
        THEN [err |-> "IndexError", devices |-> <<>>]
        ELSE [err |-> "", devices |-> SelectSeq(flattened_devices, kept)]

(***************************************************************************)
(* The configurations, the hosts and the answers of the data sources.      *)
(***************************************************************************)
SeqsUpTo(S, n) == UNION {[1..k -> S] : k \in 0..n}

\* excluded_* left out of the instance, the legacy device_blacklist_re set
LegacyExclusion ==
    [excluded_filesystems |-> Missing, excluded_disks |-> Missing,
     excluded_disk_re |-> Missing, device_blacklist_re |-> Some(s_re_tev)]

\* excluded_* given by the instance (as in test_device_exclusion_logic)
InstanceExclusion ==
    [excluded_filesystems |-> Some(<<s_tmpfs>>),
     excluded_disks |-> Some(<<s_dev_sdb1>>),
     excluded_disk_re |-> Some(s_re_tev), device_blacklist_re |-> NoneValue]

Exclusions == {LegacyExclusion, InstanceExclusion}

\* the pairs of an instance and the agentConfig it comes with
Configurations ==
    {[instance |->
        [use_mount |-> um, tag_by_filesystem |-> tag,
         all_partitions |-> Missing,
         excluded_filesystems |-> x.excluded_filesystems,
         excluded_disks |-> x.excluded_disks,
         excluded_disk_re |-> x.excluded_disk_re],
      agentConfig |-> [device_blacklist_re |-> x.device_blacklist_re]] :
        um \in {Missing, Some(s_yes)}, tag \in {Some(s_no), Some(s_yes)},
        x \in Exclusions}

Part(device, fstype, mountpoint, opts) ==
    [device |-> device, fstype |-> fstype, mountpoint |-> mountpoint,
     opts |-> opts]

\* what the mount table of a host may list: two disks, one of them also
\* mounted a second time, and pseudo filesystems
Partitions ==
    {Part(s_dev_sda1, s_ext4, s_root, s_rw),
     Part(s_dev_sdb1, s_ext4, s_mnt, s_rw),
     Part(s_dev_sda1, s_ext4, s_mnt, s_rw),
     Part(s_udev, s_devtmpfs, s_dev, s_rw),
     Part(s_none, s_tmpfs, s_run, s_rw),
     Part(s_tevv, s_ext4, s_t, s_rw)}

\* the drives of a Windows host: a disk, an optical drive with a disc, an
\* optical drive without one, a drive without a filesystem
Drives ==
    {Part(s_C, s_ntfs, s_C, s_rw),
     Part(s_D, s_cdfs, s_D, s_ro_cdrom),
     Part(s_D, s_empty, s_D, s_cdrom),
     Part(s_E, s_empty, s_E, s_rw)}

\* MockDiskMetrics, MockInodesMetrics, MockIoCountersMetrics of the tests,
\* and a filesystem that reports no inodes
UsageSample == [total |-> 5 * 1024, used |-> 4 * 1024, free |-> 1 * 1024,
                percent |-> 80]
InodeSamples == {[f_files |-> 10, f_ffree |-> 9], [f_files |-> 0, f_ffree |-> 0]}
IoSample == [read_time |-> 15, write_time |-> 25]
IoKeys == {s_sda1, s_sd_dot_1}

\* the rows df prints after its header
Rows ==
    {<<s_dev_sda1, s_ext4, s_5, s_4, s_1, s_80pct, s_root>>,
     <<s_none, s_tmpfs, s_5, s_4, s_1, s_80pct, s_run>>,
     <<s_none, s_ext4, s_dash, s_dash, s_dash, s_dash, s_t>>,
     <<s_verylongdevicename>>,
     <<s_4096, s_2048, s_2048, s_50pct, s_mnt>>,
     <<s_123>>,
     <<s_map, s_hosts>>}

RECURSIVE Join(_, _)
Join(words, sep) ==
    IF words = <<>> THEN <<>>
    ELSE IF Len(words) = 1 THEN words[1]
    ELSE words[1] \o <<sep>> \o Join(Tail(words), sep)

\* the output of df -T -k: the header, the rows, each line ended by "\n"
DfText(rows) ==
    Join(<<Join(<<s_header, s_header>>, " ")>>
         \o [n \in 1..Len(rows) |-> Join(rows[n], " ")], "\n") \o <<"\n">>

\* host.mounts and host.rows are what the mount table and the df output of
\* the host may list
Hosts ==
    {[platform |-> "unix", psutil |-> TRUE, mounts |-> Partitions, rows |-> {}],
     [platform |-> "win32", psutil |-> TRUE, mounts |-> Drives, rows |-> {}],
     [platform |-> "unix", psutil |-> FALSE, mounts |-> {}, rows |-> Rows]}

PartitionsAnswers ==
    {Ok(l) : l \in SeqsUpTo(host.mounts, MaxParts)} \cup {Raised(<<>>)}
UsageAnswers == {Ok(UsageSample), Raised(UsageSample)}
StatvfsAnswers ==
    {Ok(s) : s \in InodeSamples} \cup {Raised([f_files |-> 0, f_ffree |-> 0])}
IoCountersAnswers ==
    {Ok([k \in K |-> IoSample]) : K \in SUBSET IoKeys} \cup {Raised(EmptyDict)}
DfAnswers ==
    {Ok(DfText(rows)) : rows \in SeqsUpTo(host.rows, MaxRows)}
    \cup {Raised(<<>>)}

(***************************************************************************)
(* self.gauge(metric_name, value, tags=tags, device_name=device_name) for  *)
(* every item of a metrics dict.  origin records the loop iteration that   *)
(* made the call; it is not an argument of the call.                       *)
(***************************************************************************)
PartOrigin(n) == [kind |-> "part", n |-> n, key |-> <<>>, device |-> <<>>]
RowOrigin(n) == [kind |-> "row", n |-> n, key |-> <<>>, device |-> <<>>]
IoOrigin(disk_name, device) ==
    [kind |-> "io", n |-> 0, key |-> disk_name, device |-> device]

\* self.gauge called twice for each metric
gauge_all_twice(metrics, tags, device_name, origin) ==
    LET emitted == SetToBag({[name |-> k, value |-> metrics[k], tags |-> tags,
                              device_name |-> device_name, origin |-> origin] :
                             k \in DOMAIN metrics})
    IN  gauges (+) emitted (+) emitted

gauge_all(metrics, tags, device_name, origin) ==
    gauges (+) SetToBag({[name |-> k, value |-> metrics[k], tags |-> tags,
                          device_name |-> device_name, origin |-> origin] :
                         k \in DOMAIN metrics})

Raise(exception) ==
    /\ pc' = "error"
    /\ error' = exception

(***************************************************************************)
(* Disk._load_conf (check, line 35)                                        *)
(***************************************************************************)
load_conf_re ==
    LET configured == Get(instance.excluded_disk_re, s_re_default)
        device_blacklist_re == agentConfig.device_blacklist_re
    IN  IF configured = s_re_default /\ device_blacklist_re # NoneValue
        THEN ReCompile(device_blacklist_re[1])
        ELSE ReCompile(configured)

LoadConf ==
    /\ pc = "idle"
    /\ use_mount' = IsAffirmative(Get(instance.use_mount, <<>>))
    /\ excluded_filesystems' = Get(instance.excluded_filesystems, <<>>)
    /\ excluded_disks' = Get(instance.excluded_disks, <<>>)
    /\ excluded_disk_re' = load_conf_re
    /\ tag_by_filesystem' = IsAffirmative(Get(instance.tag_by_filesystem, <<>>))
    /\ all_partitions' = IsAffirmative(Get(instance.all_partitions, s_yes))
    /\ pc' = "loaded"
    /\ UNCHANGED <<inputs, oracle, valid_disks, loops, gauges, error, history>>

(***************************************************************************)
(* Disk.collect_metrics_psutil                                             *)
(***************************************************************************)
\* collect_metrics_psutil without line 62: the index of the last pass stays
keep_valid_disks == valid_disks

\* line 62
reset_valid_disks == EmptyDict

\* lines 62-63: the index is emptied and psutil.disk_partitions is called
StartPsutil ==
    /\ pc = "loaded"
    /\ host.psutil
    /\ valid_disks' = reset_valid_disks
    /\ LET call == Call("psutil.disk_partitions",
                        IF all_partitions THEN s_true ELSE s_no)
       IN  \E r \in Ask(call, PartitionsAnswers) :
            /\ oracle' = Told(call, r)
            /\ IF ~r.ok
               THEN Raise("OSError") /\ UNCHANGED loops
               ELSE /\ parts' = r.value
                    /\ idx' = 1
                    /\ pc' = "psutil_loop"
                    /\ UNCHANGED <<devices, io, todo, error>>
    /\ UNCHANGED <<inputs, conf, gauges, history>>

part_tags(part) == IF tag_by_filesystem THEN <<part.fstype>> ELSE <<>>

part_device_name(part) == IF use_mount THEN part.mountpoint ELSE part.device

\* the metrics computed before the exception emitted all the same
part_gauges_before_raise(collected, part) ==
    gauge_all(collected.metrics, part_tags(part), part_device_name(part),
              PartOrigin(idx))

\* lines 74-76: nothing is emitted when _collect_part_metrics raised
part_gauges(collected, part) ==
    IF collected.err # "" THEN gauges
    ELSE gauge_all(collected.metrics, part_tags(part), part_device_name(part),
                   PartOrigin(idx))

\* line 69
index_part(part) ==
    DictSet(valid_disks, part.device, <<part.fstype, part.mountpoint>>)

\* lines 63-76: one iteration of the loop over the partitions; os.statvfs
\* is reached only on a unix platform and after disk_usage has returned
PsutilPart ==
    /\ pc = "psutil_loop"
    /\ idx <= Len(parts)
    /\ LET part == parts[idx]
           usage_call == Call("psutil.disk_usage", part.mountpoint)
           statvfs_call == Call("os.statvfs", part.mountpoint)
       IN  IF exclude_disk_psutil(part)
           THEN /\ idx' = idx + 1
                /\ UNCHANGED <<oracle, valid_disks, pc, gauges, error>>
           ELSE /\ valid_disks' = index_part(part)
                /\ \E usage \in Ask(usage_call, UsageAnswers),
                      statvfs \in Ask(statvfs_call, StatvfsAnswers) :
                    LET collected == collect_part_metrics(usage, statvfs)
                    IN  /\ oracle' =
                              IF usage.ok /\ Platform_is_unix(host.platform)
                              THEN DictSet(Told(usage_call, usage),
                                           statvfs_call, statvfs)
                              ELSE Told(usage_call, usage)
                        /\ gauges' = part_gauges(collected, part)
                        /\ IF collected.err # ""
                           THEN Raise(collected.err) /\ UNCHANGED idx
                           ELSE idx' = idx + 1 /\ UNCHANGED <<pc, error>>
    /\ UNCHANGED <<inputs, conf, parts, devices, io, todo, history>>

(***************************************************************************)
(* Disk.collect_latency_metrics                                            *)
(***************************************************************************)
\* line 78 and line 124: psutil.disk_io_counters(True) is called
StartLatency ==
    /\ pc = "psutil_loop"
    /\ idx > Len(parts)
    /\ LET call == Call("psutil.disk_io_counters", s_true)
       IN  \E r \in Ask(call, IoCountersAnswers) :
            /\ oracle' = Told(call, r)
            /\ IF ~r.ok
               THEN Raise("OSError") /\ UNCHANGED <<io, todo>>
               ELSE /\ io' = r.value
                    /\ todo' = DOMAIN r.value
                    /\ pc' = "latency_loop"
                    /\ UNCHANGED error
    /\ UNCHANGED <<inputs, conf, valid_disks, parts, devices, idx, gauges,
                   history>>

\* line 127: '^(/dev/)?{0}$'.format(disk_name)
latency_pattern(disk_name) ==
    ReCompile(<<"^", "(">> \o s_dev \o <<")", "?">> \o disk_name \o <<"$">>)

\* lines 126-127
match_disks(disk_name) ==
    {d \in DOMAIN valid_disks : ReMatch(latency_pattern(disk_name), d)}

latency_tags(fstype) == IF tag_by_filesystem THEN <<fstype>> ELSE <<>>

\* line 137 without the use_mount test
latency_device_name_device(mountpoint, device) == device

latency_device_name(mountpoint, device) ==
    IF use_mount THEN mountpoint ELSE device

latency_metrics(disk) ==
    (METRIC_DISK("read_time_pct") :> Frac(disk.read_time * 100, 1000))
    @@ (METRIC_DISK("write_time_pct") :> Frac(disk.write_time * 100, 1000))

\* line 131, match_disks[0]: the first matching key in the iteration order
\* of the dict, an order the program does not control but which is the same
\* whenever the same dict is built again
first_match(disk_name) ==
    LET call == Call("dict order", disk_name)
    IN  IF call \in DOMAIN oracle /\ oracle[call].value \in match_disks(disk_name)
        THEN {oracle[call].value}
        ELSE match_disks(disk_name)

\* lines 124-146: one iteration of the loop over the counters, which come in
\* the iteration order of the dict: the key taken now is any key left
LatencyKey ==
    /\ pc = "latency_loop"
    /\ \E disk_name \in todo :
        /\ todo' = todo \ {disk_name}
        /\ IF match_disks(disk_name) = {}
           THEN UNCHANGED <<gauges, oracle>>
           ELSE \E device \in first_match(disk_name) :
                  LET fstype == valid_disks[device][1]
                      mountpoint == valid_disks[device][2]
                  IN  /\ gauges' =
                            gauge_all(latency_metrics(io[disk_name]),
                                      latency_tags(fstype),
                                      latency_device_name(mountpoint, device),
                                      IoOrigin(disk_name, device))
                      /\ oracle' = Told(Call("dict order", disk_name),
                                        Ok(device))
    /\ UNCHANGED <<inputs, conf, valid_disks, pc, parts, devices, idx, io,
                   error, history>>

(***************************************************************************)
(* Disk.collect_metrics_manually                                           *)
(***************************************************************************)
\* lines 150-154: df is run and its output parsed
StartManual ==
    /\ pc = "loaded"
    /\ ~host.psutil
    /\ LET call == Call("get_subprocess_output", <<>>)
       IN  \E r \in Ask(call, DfAnswers) :
            LET listed == list_devices(r.value)
            IN  /\ oracle' = Told(call, r)
                /\ IF ~r.ok
                   THEN Raise("SubprocessError") /\ UNCHANGED loops
                   ELSE IF listed.err # ""
                   THEN Raise(listed.err) /\ UNCHANGED loops
                   ELSE /\ devices' = listed.devices
                        /\ idx' = 1
                        /\ pc' = "manual_loop"
                        /\ UNCHANGED <<parts, io, todo, error>>
    /\ UNCHANGED <<inputs, conf, valid_disks, gauges, history>>

device_tags(device) == IF tag_by_filesystem THEN <<device[2]>> ELSE <<>>

device_device_name(device) == IF use_mount THEN Last(device) ELSE device[1]

\* lines 154-160: one iteration of the loop over the devices; os.statvfs is
\* reached only after the fields of the row have been converted
ManualDevice ==
    /\ pc = "manual_loop"
    /\ idx <= Len(devices)
    /\ LET device == devices[idx]
           statvfs_call == Call("os.statvfs", Last(device))
       IN  IF extract_space_metrics(device).err # ""
           THEN /\ Raise(extract_space_metrics(device).err)
                /\ UNCHANGED <<idx, gauges, oracle>>
           ELSE \E statvfs \in Ask(statvfs_call, StatvfsAnswers) :
                  LET extracted == extract_metrics(device, statvfs)
                  IN  /\ oracle' = Told(statvfs_call, statvfs)
                      /\ IF extracted.err # ""
                         THEN Raise(extracted.err) /\ UNCHANGED <<idx, gauges>>
                         ELSE /\ gauges' = gauge_all(extracted.metrics,
                                                     device_tags(device),
                                                     device_device_name(device),
                                                     RowOrigin(idx))
                              /\ idx' = idx + 1
                              /\ UNCHANGED <<pc, error>>
    /\ UNCHANGED <<inputs, conf, valid_disks, parts, devices, io, todo, history>>

\* check() returns
Return ==
    /\ \/ pc = "latency_loop" /\ todo = {}
       \/ pc = "manual_loop" /\ idx > Len(devices)
    /\ pc' = "done"
    /\ UNCHANGED <<inputs, oracle, conf, valid_disks, loops, gauges, error,
                   history>>

(***************************************************************************)
(* The check after construction, about to run its first pass.  The         *)
(* attributes of self do not exist yet; they hold placeholders that no     *)
(* action reads before it has assigned them.                               *)
(***************************************************************************)
NoLoops ==
    /\ parts = <<>>
    /\ devices = <<>>
    /\ idx = 0
    /\ io = EmptyDict
    /\ todo = {}

Constructed ==
    /\ use_mount = FALSE
    /\ excluded_filesystems = <<>>
    /\ excluded_disks = <<>>
    /\ excluded_disk_re = ReCompile(s_re_default)
    /\ tag_by_filesystem = FALSE
    /\ all_partitions = FALSE
    /\ valid_disks = EmptyDict
    /\ pc = "idle"
    /\ NoLoops
    /\ gauges = EmptyBag
    /\ error = ""
    /\ replay = FALSE
    /\ prev_gauges = EmptyBag
    /\ prev_error = ""

Init ==
    /\ \E c \in Configurations :
        /\ instance = c.instance
        /\ agentConfig = c.agentConfig
    /\ host \in Hosts
    /\ oracle = EmptyDict
    /\ Constructed

(***************************************************************************)
(* The collector calls check() again.  The locals of the pass that ended   *)
(* are gone; the attributes of self are what that pass left.               *)
(***************************************************************************)
CalledAgain ==
    /\ pc \in {"done", "error"}
    /\ pc' = "idle"
    /\ parts' = <<>>
    /\ devices' = <<>>
    /\ idx' = 0
    /\ io' = EmptyDict
    /\ todo' = {}
    /\ gauges' = EmptyBag
    /\ error' = ""
    /\ UNCHANGED <<host, conf, valid_disks>>

\* on a machine and with a configuration that may have changed
Rerun ==
    /\ CalledAgain
    /\ \E c \in Configurations :
        /\ instance' = c.instance
        /\ agentConfig' = c.agentConfig
    /\ oracle' = EmptyDict
    /\ replay' = FALSE
    /\ prev_gauges' = EmptyBag
    /\ prev_error' = ""

\* with the configuration and the data-source answers of the pass that ended
Replay ==
    /\ CalledAgain
    /\ UNCHANGED <<instance, agentConfig, oracle>>
    /\ replay' = TRUE
    /\ prev_gauges' = gauges
    /\ prev_error' = error

Next ==
    \/ LoadConf
    \/ StartPsutil
    \/ PsutilPart
    \/ StartLatency
    \/ LatencyKey
    \/ StartManual
    \/ ManualDevice
    \/ Return
    \/ Rerun

Spec == Init /\ [][Next]_vars

(***************************************************************************)
(* Passes that are run again on the same inputs, on hosts with one or two  *)
(* disks.                                                                  *)
(***************************************************************************)
SmallHosts ==
    {[platform |-> "unix", psutil |-> TRUE,
      mounts |-> {Part(s_dev_sda1, s_ext4, s_root, s_rw),
                  Part(s_dev_sdb1, s_ext4, s_mnt, s_rw)},
      rows |-> {}],
     [platform |-> "unix", psutil |-> FALSE, mounts |-> {},
      rows |-> {<<s_dev_sda1, s_ext4, s_5, s_4, s_1, s_80pct, s_root>>,
                <<s_dev_sdb1, s_ext4, s_5, s_4, s_1, s_80pct, s_mnt>>,
                <<s_map, s_hosts>>}]}

InitRepeat ==
    /\ \E c \in Configurations :
        /\ instance = c.instance
        /\ agentConfig = c.agentConfig
    /\ host \in SmallHosts
    /\ oracle = EmptyDict
    /\ Constructed

NextRepeat == Next \/ Replay

SpecRepeat == InitRepeat /\ [][NextRepeat]_vars

(***************************************************************************)
(* Vocabulary of the properties.                                           *)
(***************************************************************************)
Emitted == BagToSet(gauges)

\* what the sink receives of a gauge
Observable(g) == [name |-> g.name, value |-> g.value, tags |-> g.tags,
                  device_name |-> g.device_name]

Finished == pc \in {"done", "error"}

\* the regular expression the configuration excludes devices by
ConfiguredRe ==
    IF instance.excluded_disk_re # Missing THEN instance.excluded_disk_re[1]
    ELSE IF agentConfig.device_blacklist_re # NoneValue
    THEN agentConfig.device_blacklist_re[1]
    ELSE s_re_default

\* excluded by name, by list, by regular expression or by filesystem type
ExcludedByConfiguration(name, fstype) ==
    \/ name \in FAKE_DEVICES
    \/ \E n \in 1..Len(Get(instance.excluded_disks, <<>>)) :
           Get(instance.excluded_disks, <<>>)[n] = name
    \/ ReMatch(ReCompile(ConfiguredRe), name)
    \/ \E n \in 1..Len(Get(instance.excluded_filesystems, <<>>)) :
           Get(instance.excluded_filesystems, <<>>)[n] = fstype

UseMount == instance.use_mount \in {Some(s_yes), Some(s_true), Some(s_1)}
TagByFilesystem ==
    instance.tag_by_filesystem \in {Some(s_yes), Some(s_true), Some(s_1)}

IsInodeGauge(g) == g.name[1] = "system.fs.inodes"
IsLatencyGauge(g) == g.origin.kind = "io"

\* the answer the data source gave to a call of this pass
Answer(name, arg) == oracle[Call(name, arg)]
Answered(name, arg) == Call(name, arg) \in DOMAIN oracle

(***************************************************************************)
(* C1.  A candidate device that is a fake device, is in excluded_disks, is *)
(* matched by excluded_disk_re or has a filesystem type in                 *)
(* excluded_filesystems gets no gauge in the pass: every gauge comes from  *)
(* a partition (psutil path) or a df row (df path) that none of the four   *)
(* rules excludes, and every latency gauge is for the device of such a     *)
(* partition of this pass.                                                 *)
(***************************************************************************)
C1_ExcludedDevicesEmitNothing ==
    \A g \in Emitted :
        CASE g.origin.kind = "part" ->
                ~ExcludedByConfiguration(parts[g.origin.n].device,
                                         parts[g.origin.n].fstype)
          [] g.origin.kind = "row" ->
                ~ExcludedByConfiguration(devices[g.origin.n][1],
                                         devices[g.origin.n][2])
          [] g.origin.kind = "io" ->
                \E n \in 1..Len(parts) :
                    /\ parts[n].device = g.origin.device
                    /\ ~ExcludedByConfiguration(parts[n].device, parts[n].fstype)

\* a finished psutil pass over an excluded and an accepted partition, with
\* a counter key that names the excluded one
C1_Witness ==
    /\ pc = "done"
    /\ Len(parts) = 2
    /\ parts[1].device = s_dev_sdb1
    /\ ExcludedByConfiguration(parts[1].device, parts[1].fstype)
    /\ ~ExcludedByConfiguration(parts[2].device, parts[2].fstype)
    /\ s_sd_dot_1 \in DOMAIN io
    /\ \E g \in Emitted : IsLatencyGauge(g)

C3_OneGaugePerMetricAndDevice ==
    \A g, h \in Emitted :
        g.name = h.name /\ g.device_name = h.device_name =>
            g = h /\ CopiesIn(g, gauges) = 1

(***************************************************************************)
(* C3, amended.  Exactly one discovery path runs in a pass, and no row of  *)
(* the mount table, no row of the df output and no I/O-counter key is      *)
(* processed more than once: at most one gauge per metric name is emitted  *)
(* for each of them.  (A device listed on several rows, or matched by      *)
(* several counter keys, gets one gauge per row or key.)                   *)
(***************************************************************************)
C3_OneGaugePerMetricAndRow ==
    /\ \A g \in Emitted :
        /\ CopiesIn(g, gauges) = 1
        /\ g.origin.kind \in (IF host.psutil THEN {"part", "io"} ELSE {"row"})
    /\ \A g, h \in Emitted :
        /\ g.name = h.name
        /\ g.origin.kind = h.origin.kind
        /\ g.origin.n = h.origin.n
        /\ g.origin.key = h.origin.key
        => g = h

\* the mount table listed the same device twice and both rows were emitted
C3_Witness ==
    /\ pc = "done"
    /\ Len(parts) = 2
    /\ parts[1].device = parts[2].device
    /\ \E g, h \in Emitted :
        /\ g.origin.n = 1 /\ h.origin.n = 2
        /\ g.name = h.name /\ g.origin.kind = "part" /\ h.origin.kind = "part"

(***************************************************************************)
(* C4.  For every partition or row whose inodes were queried              *)
(* (_collect_inodes_metrics is reached on the df path, and on the psutil   *)
(* path of a unix platform), no inode gauge is emitted when os.statvfs     *)
(* reports f_files = 0, and otherwise exactly the four gauges              *)
(* total = f_files, free = f_ffree, used = f_files - f_ffree and           *)
(* in_use = (f_files - f_ffree) / f_files; f_files = 10 and f_ffree = 9    *)
(* give used = 1 and in_use = 1/10.                                        *)
(***************************************************************************)
InodesOf(origin) ==
    {<<g.name[2], g.value>> : g \in {h \in Emitted : h.origin = origin
                                                     /\ IsInodeGauge(h)}}

MountpointOf(origin) ==
    IF origin.kind = "part" THEN parts[origin.n].mountpoint
    ELSE devices[origin.n][Len(devices[origin.n])]

InodesAsClaimed(origin) ==
    LET total == Answer("os.statvfs", MountpointOf(origin)).value.f_files
        free == Answer("os.statvfs", MountpointOf(origin)).value.f_ffree
        found == InodesOf(origin)
    IN  IF total = 0 THEN found = {}
        ELSE /\ {m[1] : m \in found} = {"total", "free", "used", "in_use"}
             /\ Cardinality(found) = 4
             /\ \A m \in found :
                  CASE m[1] = "total" -> m[2] = [num |-> total, den |-> 1]
                    [] m[1] = "free" -> m[2] = [num |-> free, den |-> 1]
                    [] m[1] = "used" -> m[2] = [num |-> total - free, den |-> 1]
                    [] m[1] = "in_use" ->
                         /\ m[2].den > 0
                         /\ m[2].num * total = (total - free) * m[2].den
                         /\ (total = 10 /\ free = 9
                                => m[2] = [num |-> 1, den |-> 10])

C4_InodeMetrics ==
    \A g \in Emitted :
        /\ g.origin.kind \in {"part", "row"}
        /\ g.origin.kind = "part" => host.platform = "unix"
        => InodesAsClaimed(g.origin)

\* one pass over a filesystem with inodes and one that reports none
C4_Witness ==
    /\ pc = "done"
    /\ host.psutil /\ host.platform = "unix"
    /\ \E g, h \in Emitted :
        /\ g.origin.kind = "part" /\ h.origin.kind = "part"
        /\ InodesOf(g.origin) = {}
        /\ Answer("os.statvfs", MountpointOf(g.origin)).value.f_files = 0
        /\ <<"in_use", [num |-> 1, den |-> 10]>> \in InodesOf(h.origin)
        /\ <<"used", [num |-> 1, den |-> 1]>> \in InodesOf(h.origin)

(***************************************************************************)
(* C5.  As claimed: when the latency phase has run, a counter key k has    *)
(* its two gauges (read_time_pct = read_time * 100 / 1000, write_time_pct  *)
(* likewise) iff some device of the valid-disk index equals k or           *)
(* "/dev/" + k, and every latency gauge is for a device of the index.      *)
(***************************************************************************)
LatencyOf(k) ==
    {<<g.name[2], g.value>> : g \in {h \in Emitted : IsLatencyGauge(h)
                                                     /\ h.origin.key = k}}

IdentityAsClaimed(g, device, fstype, mountpoint) ==
    /\ g.device_name = IF UseMount THEN mountpoint ELSE device
    /\ g.tags = IF TagByFilesystem THEN <<fstype>> ELSE <<>>

C6_DeviceNameAndTags ==
    \A g \in Emitted :
        CASE g.origin.kind = "part" ->
                LET part == parts[g.origin.n]
                IN  IdentityAsClaimed(g, part.device, part.fstype, part.mountpoint)
          [] g.origin.kind = "row" ->
                LET device == devices[g.origin.n]
                IN  IdentityAsClaimed(g, device[1], device[2],
                                      device[Len(device)])
          [] g.origin.kind = "io" ->
                /\ g.origin.device \in DOMAIN valid_disks
                /\ IdentityAsClaimed(g, g.origin.device,
                                     valid_disks[g.origin.device][1],
                                     valid_disks[g.origin.device][2])
                /\ \E n \in 1..Len(parts) :
                    /\ parts[n].device = g.origin.device
                    /\ parts[n].fstype = valid_disks[g.origin.device][1]
                    /\ parts[n].mountpoint = valid_disks[g.origin.device][2]

\* use_mount and tag_by_filesystem both set: a latency gauge named by the
\* mountpoint and tagged by the filesystem type, beside space gauges
C6_Witness ==
    /\ pc = "done"
    /\ UseMount /\ TagByFilesystem
    /\ \E g, h \in Emitted :
        /\ IsLatencyGauge(g)
        /\ g.origin.device = s_dev_sda1
        /\ g.device_name = s_root
        /\ g.tags = <<s_ext4>>
        /\ h.origin.kind = "part"
        /\ h.device_name = s_root

(***************************************************************************)
(* C7.  A pass that is run again with the same configuration and the same  *)
(* data-source answers ends as the previous one did and emits the same     *)
(* set of (metric name, value, tags, device_name) gauges; and the          *)
(* valid-disk index is rebuilt in each pass: a latency gauge is for a      *)
(* device that the mount table of this pass lists, whatever earlier passes *)
(* accepted.                                                               *)
(***************************************************************************)
C7_RerunEmitsTheSame ==
    /\ Finished /\ replay =>
        /\ error = prev_error
        /\ {Observable(g) : g \in Emitted}
              = {Observable(g) : g \in BagToSet(prev_gauges)}
    /\ \A g \in Emitted :
        IsLatencyGauge(g) =>
            \E n \in 1..Len(parts) : parts[n].device = g.origin.device

\* a pass with latency gauges, run a second time
C7_Witness ==
    /\ pc = "done"
    /\ replay
    /\ \E g \in Emitted : IsLatencyGauge(g)
    /\ \E g \in Emitted : g.origin.kind = "part" /\ IsInodeGauge(g)

(***************************************************************************)
(* C8.  As claimed: whatever df printed, _list_devices returns without     *)
(* raising, and returns exactly the coalesced rows that have more than one *)
(* field, a purely numeric field at index 2 and a (field 0, field 1) pair  *)
(* that is not excluded.                                                   *)
(***************************************************************************)
DfAnswered ==
    /\ ~host.psutil
    /\ pc \notin {"idle", "loaded"}
    /\ Answered("get_subprocess_output", <<>>)
    /\ Answer("get_subprocess_output", <<>>).ok

DfOutput == Answer("get_subprocess_output", <<>>).value

KeptAsClaimed(row) ==
    /\ Len(row) > 1
    /\ Len(row) >= 3 /\ IsDigit(row[3])
    /\ ~ExcludedByConfiguration(row[1], row[2])

C8_ListDevicesNeverRaises ==
    DfAnswered =>
        /\ ~(pc = "error" /\ idx = 0)
        /\ devices = SelectSeq(flatten_devices(raw_devices(DfOutput)),
                               KeptAsClaimed)

(***************************************************************************)
(* C9.  In the parsed df output, a line with exactly one field is left as  *)
(* it is and becomes the pending prefix; a line with several fields that   *)
(* immediately follows a one-field line and starts with a purely numeric   *)
(* field becomes the prefix followed by its own fields; every other line   *)
(* is left unchanged (the prefix is dropped, and cleared once used).  A    *)
(* one-field line never is a record of its own: "verylongdevicename"       *)
(* followed by "4096 2048 2048 50% /mnt" yields exactly one record, with   *)
(* device "verylongdevicename".                                            *)
(***************************************************************************)
CoalescedAsClaimed(raw, n) ==
    IF Len(raw[n]) = 1 THEN raw[n]
    ELSE IF n > 1 /\ Len(raw[n - 1]) = 1
            /\ Len(raw[n][1]) > 0
            /\ \A c \in 1..Len(raw[n][1]) : raw[n][1][c] \in Digits
    THEN <<raw[n - 1][1]>> \o raw[n]
    ELSE raw[n]

WrappedExample ==
    DfText(<<<<s_verylongdevicename>>,
             <<s_4096, s_2048, s_2048, s_50pct, s_mnt>>>>)

C9_Coalescing ==
    DfAnswered =>
        LET raw == raw_devices(DfOutput)
            flat == flatten_devices(raw)
        IN  /\ Len(flat) = Len(raw)
            /\ \A n \in 1..Len(raw) : flat[n] = CoalescedAsClaimed(raw, n)
            /\ \A n \in 1..Len(devices) : Len(devices[n]) > 1
            /\ DfOutput = WrappedExample =>
                  devices = <<<<s_verylongdevicename, s_4096, s_2048, s_2048,
                                s_50pct, s_mnt>>>>

\* the wrapped record of the example has been parsed, and so has a wrapped
\* record followed by a line that starts with a number
C9_Witness ==
    /\ DfAnswered
    /\ Len(devices) = 2
    /\ devices[1][1] = s_verylongdevicename
    /\ devices[2][1] = s_4096
    /\ Len(raw_devices(DfOutput)) = 3

(***************************************************************************)
(* C10.  As claimed: the optical-drive rule excludes a partition only on   *)
(* Windows and only when it has both the cdrom option and an empty         *)
(* filesystem type; a partition that no name, regex or filesystem rule     *)
(* excludes and that is not such a drive is accepted into the valid-disk   *)
(* index.                                                                  *)
(***************************************************************************)
UnreadyOpticalDrive(part) ==
    /\ host.platform = "win32"
    /\ Contains(part.opts, s_cdrom)
    /\ part.fstype = s_empty

C10_OpticalRuleNeedsBoth ==
    host.psutil /\ pc \in {"psutil_loop", "latency_loop", "done"} =>
        \A n \in 1..Len(parts) :
            /\ n < idx
            /\ ~ExcludedByConfiguration(parts[n].device, parts[n].fstype)
            /\ ~UnreadyOpticalDrive(parts[n])
            => parts[n].device \in DOMAIN valid_disks

=============================================================================
